---- MODULE Spec2Model ----
(***************************************************************************)
(* QuantizeLayer (tfmot.quantization.keras): a Keras layer that wraps an   *)
(* injected Quantizer, owns the quantizer's min/max variables and an       *)
(* optimizer_step counter, delegates call to the quantizer in training or  *)
(* inference mode, and (de)serializes its configuration.                   *)
(*                                                                         *)
(* Python values are modelled as follows.                                  *)
(*   - an object is a record [id, type, config]; id is its identity;       *)
(*   - a dict is a function from key strings to values;                    *)
(*   - the truth values handed to call are the strings "None", "True",     *)
(*     "False"; the learning phase is "0", "1" (eager mode) or "tensor"    *)
(*     (a symbolic placeholder in graph mode);                             *)
(*   - a variable (tf.Variable) is an index into the layer's weights, 0    *)
(*     standing for an attribute that does not exist.                      *)
(***************************************************************************)
EXTENDS Integers, Sequences, FiniteSets, TLC

VARIABLES
  supplied,        \* the object handed to QuantizeLayer(quantizer, kwargs)
  layer,           \* the QuantizeLayer under observation
  weights,         \* the layer's variables, in creation order
  buildLog,        \* the invocations of quantizer.build
  learning_phase,  \* tf.keras.backend.learning_phase()
  lastCall,        \* what the last invocation of call did
  config,          \* the configuration mapping held by the caller
  configFrom,      \* "get_config" while config is what get_config returned
  scope,           \* class names in the Keras custom-object scope
  restored         \* what the last from_config did

vars == <<supplied, layer, weights, buildLog, learning_phase, lastCall,
          config, configFrom, scope, restored>>

(***************************************************************************)
(* Bounds of the model.                                                    *)
(***************************************************************************)
MaxInput == 2
MaxShape == 2

Inputs == (0 - MaxInput)..MaxInput
InputShapes == 1..MaxShape

(***************************************************************************)
(* Objects a caller may supply as the quantizer.                           *)
(***************************************************************************)
QuantizerClasses == {"LastValueQuantizer", "FixedRangeQuantizer"}

NoneObj == [id |-> 0, type |-> "NoneType", config |-> [num_bits |-> 0]]
StrObj == [id |-> 1, type |-> "str", config |-> [num_bits |-> 0]]
LastValue8 == [id |-> 2, type |-> "LastValueQuantizer", config |-> [num_bits |-> 8]]
LastValue4 == [id |-> 3, type |-> "LastValueQuantizer", config |-> [num_bits |-> 4]]
FixedRange8 == [id |-> 4, type |-> "FixedRangeQuantizer", config |-> [num_bits |-> 8]]

SuppliedObjects == {NoneObj, StrObj, LastValue8, LastValue4, FixedRange8}

\* isinstance(quantizer, quantizers.Quantizer)
IsQuantizerInstance(q) == q.type \in QuantizerClasses

EmptyDict == [k \in {} |-> TRUE]

KwargsChoices ==
  { EmptyDict,
    [name |-> "q1"],
    [trainable |-> FALSE],
    [name |-> "q1", trainable |-> FALSE] }

(***************************************************************************)
(* tf.keras.layers.Layer.__init__(kwargs): the base-layer settings.      *)
(***************************************************************************)
BaseInit(kwargs) ==
  [ name      |-> IF "name" \in DOMAIN kwargs THEN kwargs["name"] ELSE "quantize_layer",
    trainable |-> IF "trainable" \in DOMAIN kwargs THEN kwargs["trainable"] ELSE TRUE,
    dtype     |-> IF "dtype" \in DOMAIN kwargs THEN kwargs["dtype"] ELSE "float32" ]

NoLayer ==
  [ status |-> "absent", id |-> 0, quantizer |-> NoneObj, base |-> BaseInit(EmptyDict),
    built |-> FALSE, min_var |-> 0, max_var |-> 0, optimizer_step |-> 0 ]

\* The test of __init__: quantizer is None or not isinstance(quantizer, Quantizer)
OnlyNoneRejected(quantizer) == quantizer.type # "NoneType"

ValidQuantizer(quantizer) ==
  ~(quantizer.type = "NoneType" \/ ~IsQuantizerInstance(quantizer))

\* QuantizeLayer(quantizer, kwargs); lid is the identity of the new layer
QuantizeLayerInit(lid, quantizer, kwargs) ==
  IF ~ValidQuantizer(quantizer)
  THEN [NoLayer EXCEPT !.status = "ValueError"]
  ELSE [ status |-> "ok", id |-> lid, quantizer |-> quantizer,
         base |-> BaseInit(kwargs), built |-> FALSE,
         min_var |-> 0, max_var |-> 0, optimizer_step |-> 0 ]

(***************************************************************************)
(* build.                                                                  *)
(***************************************************************************)
OptimizerStepInit == -1

\* layer.add_weight(name, initializer=Constant(init), dtype, trainable)
AddWeight(ws, name, init, dtype, trainable) ==
  Append(ws, [name |-> name, dtype |-> dtype, trainable |-> trainable, value |-> init])

\* Quantizer.build(input_shape, name, layer): the quantizer adds its range
\* variables to the layer and returns them, min first
QuantizerBuild(q, ws, input_shape, name, lid) ==
  LET ws1 == AddWeight(ws, "min", 0 - 1, "float32", FALSE)
      ws2 == AddWeight(ws1, "max", 1, "float32", FALSE)
  IN  [ weights |-> ws2,
        ret |-> <<Len(ws1), Len(ws2)>>,
        args |-> [input_shape |-> input_shape, name |-> name, layer |-> lid] ]

\* A build that unpacks the quantizer's pair the wrong way round
build_swapped(self, ws, input_shape) ==
  LET qb == QuantizerBuild(self.quantizer, ws, input_shape, self.base.name, self.id)
      ws3 == AddWeight(qb.weights, "optimizer_step", OptimizerStepInit, "int32", FALSE)
  IN  [ layer |-> [self EXCEPT !.max_var = qb.ret[1], !.min_var = qb.ret[2],
                               !.optimizer_step = Len(ws3), !.built = TRUE],
        weights |-> ws3,
        quantizer_build |-> [args |-> qb.args, ret |-> qb.ret] ]

\* QuantizeLayer.build(input_shape)
build(self, ws, input_shape) ==
  LET qb == QuantizerBuild(self.quantizer, ws, input_shape, self.base.name, self.id)
      ws3 == AddWeight(qb.weights, "optimizer_step", OptimizerStepInit, "int32", FALSE)
  IN  [ layer |-> [self EXCEPT !.min_var = qb.ret[1], !.max_var = qb.ret[2],
                               !.optimizer_step = Len(ws3), !.built = TRUE],
        weights |-> ws3,
        quantizer_build |-> [args |-> qb.args, ret |-> qb.ret] ]

(***************************************************************************)
(* call.                                                                   *)
(***************************************************************************)
TrainingArgs == {"None", "True", "False"}
LearningPhases == {"0", "1", "tensor"}

\* A call that always asks the framework for the mode
AlwaysLearningPhase(training, phase) == phase

\* if training is None: training = tf.keras.backend.learning_phase()
ResolveTraining(training, phase) ==
  IF training = "None" THEN phase ELSE training

\* smart_constant_value(pred): the Python truth value of pred when it is known
\* while the graph is built, "None" for a symbolic tensor
smart_constant_value(pred) ==
  CASE pred \in {"True", "1"} -> "True"
    [] pred \in {"False", "0"} -> "False"
    [] OTHER -> "None"

\* The branches handed over the wrong way round
smart_cond_swapped(pred) ==
  CASE smart_constant_value(pred) = "True" -> <<FALSE>>
    [] smart_constant_value(pred) = "False" -> <<TRUE>>
    [] OTHER -> <<TRUE, FALSE>>

\* tf_utils.smart_cond(training, _make_quantizer_fn(True), _make_quantizer_fn(False)):
\* the train_var of every branch function that is run. A known predicate runs
\* one branch; a symbolic one makes tf.cond trace both.
smart_cond(pred) ==
  CASE smart_constant_value(pred) = "True" -> <<TRUE>>
    [] smart_constant_value(pred) = "False" -> <<FALSE>>
    [] OTHER -> <<TRUE, FALSE>>

dict_vars_swapped(min_var, max_var) == [min_var |-> max_var, max_var |-> min_var]

\* _dict_vars(min_var, max_var)
dict_vars(min_var, max_var) == [min_var |-> min_var, max_var |-> max_var]

Min(a, b) == IF a <= b THEN a ELSE b
Max(a, b) == IF a >= b THEN a ELSE b
Clamp(x, lo, hi) == Max(lo, Min(x, hi))

\* The value of a variable; a missing variable (None) reads as 0
ValueOf(ws, v) == IF v \in DOMAIN ws THEN ws[v].value ELSE 0

Assign(ws, v, x) == IF v \in DOMAIN ws THEN [ws EXCEPT ![v].value = x] ELSE ws

\* Quantizer.__call__(inputs, step, training, min_var=, max_var=). A
\* LastValueQuantizer in training mode sets the range to the batch's range
\* (widened to hold zero); every quantizer then clamps to the range.
\* A FixedRangeQuantizer never assigns to the variables.
QuantizerCall(q, ws, inputs, step, training, kwargs) ==
  LET ws1 == IF q.type = "LastValueQuantizer" /\ training
             THEN Assign(Assign(ws, kwargs.min_var, Min(inputs, 0)),
                         kwargs.max_var, Max(inputs, 0))
             ELSE ws
  IN  [ out |-> Clamp(inputs, ValueOf(ws1, kwargs.min_var), ValueOf(ws1, kwargs.max_var)),
        weights |-> ws1 ]

\* A quantizer_fn that also advances the step counter itself
quantizer_fn_stepping(self, ws, inputs, train_var) ==
  LET kw == dict_vars(self.min_var, self.max_var)
      r == QuantizerCall(self.quantizer, ws, inputs, self.optimizer_step, train_var, kw)
  IN  [ inv |-> [ quantizer |-> self.quantizer.id, inputs |-> inputs,
                  step |-> self.optimizer_step, training |-> train_var,
                  kwargs |-> kw, out |-> r.out ],
        weights |-> Assign(r.weights, self.optimizer_step,
                           ValueOf(r.weights, self.optimizer_step) + 1) ]

\* quantizer_fn(): self.quantizer(inputs, self.optimizer_step, train_var,
\*                                min_var=self.min_var, max_var=self.max_var)
quantizer_fn(self, ws, inputs, train_var) ==
  LET kw == dict_vars(self.min_var, self.max_var)
      r == QuantizerCall(self.quantizer, ws, inputs, self.optimizer_step, train_var, kw)
  IN  [ inv |-> [ quantizer |-> self.quantizer.id, inputs |-> inputs,
                  step |-> self.optimizer_step, training |-> train_var,
                  kwargs |-> kw, out |-> r.out ],
        weights |-> r.weights ]

AttrsAlwaysExist(self) == TRUE

\* self.optimizer_step, self.min_var and self.max_var exist only once build
\* has assigned them; reading a missing one raises AttributeError
AttrsExist(self) ==
  self.optimizer_step # 0 /\ self.min_var # 0 /\ self.max_var # 0

\* QuantizeLayer.call(inputs, training)
call(self, ws, inputs, training, phase) ==
  LET branches == smart_cond(ResolveTraining(training, phase))
  IN  IF ~AttrsExist(self)
      THEN [ raised |-> "AttributeError", invocations |-> <<>>, result |-> <<>>,
             weights |-> ws ]
      ELSE IF Len(branches) = 1
      THEN LET r == quantizer_fn(self, ws, inputs, branches[1])
           IN  [ raised |-> "", invocations |-> <<r.inv>>, result |-> <<r.inv.out>>,
                 weights |-> r.weights ]
      ELSE \* both branch functions are traced into the graph; their
           \* assignments run only when the graph does
           LET r1 == quantizer_fn(self, ws, inputs, branches[1])
               r2 == quantizer_fn(self, ws, inputs, branches[2])
           IN  [ raised |-> "", invocations |-> <<r1.inv, r2.inv>>,
                 result |-> <<r1.inv.out, r2.inv.out>>, weights |-> ws ]

(***************************************************************************)
(* get_config and from_config.                                             *)
(***************************************************************************)
\* The names bound in the module, handed over as module_objects=globals()
ModuleGlobals ==
  { "absolute_import", "division", "print_function", "tf", "tf_utils",
    "quantizers", "serialize_keras_object", "deserialize_keras_object",
    "QuantizeLayer" }

\* dict(list(a.items()) + list(b.items())): a later item wins
DictOfItems(a, b) ==
  [k \in DOMAIN a \cup DOMAIN b |-> IF k \in DOMAIN b THEN b[k] ELSE a[k]]

\* tf.keras.layers.Layer.get_config()
BaseGetConfig(self) ==
  [name |-> self.base.name, trainable |-> self.base.trainable, dtype |-> self.base.dtype]

\* serialize_keras_object(obj): the class name and obj.get_config()
serialize_keras_object(obj) == [class_name |-> obj.type, config |-> obj.config]

\* deserialize_keras_object(identifier, module_objects, custom_objects=None):
\* the class is looked up by name in the custom-object scope, then among
\* module_objects, and instantiated from the config; an unknown name raises
\* ValueError
deserialize_keras_object(identifier, module_objects, custom_scope, oid) ==
  IF identifier.class_name \in custom_scope
  THEN [ raised |-> "",
         obj |-> [id |-> oid, type |-> identifier.class_name,
                  config |-> identifier.config] ]
  ELSE IF identifier.class_name \in module_objects
  THEN [ raised |-> "",
         obj |-> [id |-> oid, type |-> "module_object", config |-> identifier.config] ]
  ELSE [ raised |-> "ValueError", obj |-> NoneObj ]

\* A get_config that forgets the base layer's entries
get_config_without_base(self) ==
  [quantizer |-> serialize_keras_object(self.quantizer)]

\* QuantizeLayer.get_config()
get_config(self) ==
  LET base_config == BaseGetConfig(self)
      config_ == [quantizer |-> serialize_keras_object(self.quantizer)]
  IN  DictOfItems(base_config, config_)

\* dicts live in a heap: "caller" is the mapping the caller passed in,
\* "local" a mapping from_config may create
config_alias(heap, ref) == [ref |-> ref, heap |-> heap]

\* config.copy(): a new dict with the same items
config_copy(heap, ref) ==
  [ref |-> "local", heap |-> [heap EXCEPT !["local"] = heap[ref]]]

\* d.pop(key): removes the key from the dict d refers to
dict_pop(heap, ref, key) ==
  [ value |-> heap[ref][key],
    heap |-> [heap EXCEPT ![ref] = [k \in DOMAIN heap[ref] \ {key} |-> heap[ref][k]]] ]

RestoredId == 2
DeserializedId == 5

\* A from_config that does not hand the remaining settings to the constructor
from_config_quantizer_only(config_, custom_scope) ==
  LET c == config_copy([caller |-> config_, local |-> EmptyDict], "caller")
      p == dict_pop(c.heap, c.ref, "quantizer")
      d == deserialize_keras_object(p.value, ModuleGlobals, custom_scope, DeserializedId)
  IN  IF d.raised # ""
      THEN [ status |-> d.raised, layer |-> NoLayer, caller |-> p.heap["caller"] ]
      ELSE LET l == QuantizeLayerInit(RestoredId, d.obj, EmptyDict)
           IN  [ status |-> l.status, layer |-> l, caller |-> p.heap["caller"] ]

\* QuantizeLayer.from_config(config)
from_config(config_, custom_scope) ==
  LET c == config_copy([caller |-> config_, local |-> EmptyDict], "caller")
      p == dict_pop(c.heap, c.ref, "quantizer")
      d == deserialize_keras_object(p.value, ModuleGlobals, custom_scope, DeserializedId)
  IN  IF d.raised # ""
      THEN [ status |-> d.raised, layer |-> NoLayer, caller |-> p.heap["caller"] ]
      ELSE LET l == QuantizeLayerInit(RestoredId, d.obj, p.heap[c.ref])
           IN  [ status |-> l.status, layer |-> l, caller |-> p.heap["caller"] ]

NoCall ==
  [ done |-> FALSE, inputs |-> 0, training |-> "None", phase |-> "0",
    built |-> FALSE, invocations |-> <<>>, result |-> <<>>, raised |-> "" ]

NoBuild == <<>>

NoRestored ==
  [ status |-> "absent", layer |-> NoLayer, callerBefore |-> EmptyDict,
    scopeAt |-> {} ]

Init ==
  /\ supplied = NoneObj
  /\ layer = NoLayer
  /\ weights = <<>>
  /\ buildLog = NoBuild
  /\ learning_phase \in LearningPhases
  /\ lastCall = NoCall
  /\ config = EmptyDict
  /\ configFrom = "none"
  /\ scope = {}
  /\ restored = NoRestored

cfgvars == <<config, configFrom, scope, restored>>

Construct(q, kwargs) ==
  /\ layer.status = "absent"
  /\ supplied' = q
  /\ layer' = QuantizeLayerInit(1, q, kwargs)
  /\ UNCHANGED <<weights, buildLog, learning_phase, lastCall, cfgvars>>

\* The framework (or the caller) builds the layer, once
Build(input_shape) ==
  /\ layer.status = "ok"
  /\ ~layer.built
  /\ LET r == build(layer, weights, input_shape)
     IN  /\ layer' = r.layer
         /\ weights' = r.weights
         /\ buildLog' = Append(buildLog,
                               [ given |-> input_shape,
                                 args |-> r.quantizer_build.args,
                                 ret |-> r.quantizer_build.ret,
                                 after |-> r.weights ])
  /\ UNCHANGED <<supplied, learning_phase, lastCall, cfgvars>>

\* layer.call(inputs, training=training), built or not
Call(inputs, training) ==
  /\ layer.status = "ok"
  /\ LET r == call(layer, weights, inputs, training, learning_phase)
     IN  /\ weights' = r.weights
         /\ lastCall' = [ done |-> TRUE, inputs |-> inputs, training |-> training,
                          phase |-> learning_phase, built |-> layer.built,
                          invocations |-> r.invocations, result |-> r.result,
                          raised |-> r.raised ]
  /\ UNCHANGED <<supplied, layer, buildLog, learning_phase, cfgvars>>

\* tf.keras.backend.set_learning_phase(value), or entering graph mode
SetLearningPhase(value) ==
  /\ learning_phase # value
  /\ learning_phase' = value
  /\ UNCHANGED <<supplied, layer, weights, buildLog, lastCall, cfgvars>>

\* The caller takes the layer's configuration
GetConfig ==
  /\ layer.status = "ok"
  /\ config' = get_config(layer)
  /\ configFrom' = "get_config"
  /\ restored' = NoRestored
  /\ configFrom # "get_config" \/ restored # NoRestored
  /\ UNCHANGED <<supplied, layer, weights, buildLog, learning_phase, lastCall,
                 scope>>

\* The caller renames the layer in the mapping it holds
EditConfig(name) ==
  /\ "name" \in DOMAIN config
  /\ config["name"] # name
  /\ config' = [config EXCEPT !["name"] = name]
  /\ configFrom' = "edited"
  /\ restored' = NoRestored
  /\ UNCHANGED <<supplied, layer, weights, buildLog, learning_phase, lastCall,
                 scope>>

\* with tf.keras.utils.custom_object_scope(...): the classes in scope change
SetScope(classes) ==
  /\ scope # classes
  /\ scope' = classes
  /\ UNCHANGED <<supplied, layer, weights, buildLog, learning_phase, lastCall,
                 config, configFrom, restored>>

\* QuantizeLayer.from_config(config) on the mapping the caller holds
FromConfig ==
  /\ "quantizer" \in DOMAIN config
  /\ restored.status = "absent"
  /\ LET r == from_config(config, scope)
     IN  /\ restored' = [ status |-> r.status, layer |-> r.layer,
                          callerBefore |-> config, scopeAt |-> scope ]
         /\ config' = r.caller
  /\ UNCHANGED <<supplied, layer, weights, buildLog, learning_phase, lastCall,
                 configFrom, scope>>

\* Construction, build and call
Next ==
  \/ \E q \in SuppliedObjects, kw \in KwargsChoices : Construct(q, kw)
  \/ \E shape \in InputShapes : Build(shape)
  \/ \E x \in Inputs, t \in TrainingArgs : Call(x, t)
  \/ \E v \in LearningPhases : SetLearningPhase(v)

\* Construction, build and the configuration round trip
ConfigNext ==
  \/ \E q \in SuppliedObjects, kw \in KwargsChoices : Construct(q, kw)
  \/ \E shape \in InputShapes : Build(shape)
  \/ GetConfig
  \/ \E n \in {"renamed"} : EditConfig(n)
  \/ \E c \in SUBSET QuantizerClasses : SetScope(c)
  \/ FromConfig

Spec == Init /\ [][Next]_vars

ConfigSpec == Init /\ [][ConfigNext]_vars

(***************************************************************************)
(* The properties.                                                         *)
(***************************************************************************)

\* C1: constructing a QuantizeLayer raises ValueError if and only if the
\* supplied quantizer is None or is not a Quantizer instance; for a Quantizer
\* instance construction succeeds and the layer's quantizer attribute is the
\* supplied object itself.
C1_ConstructValidates ==
  layer.status # "absent" =>
    /\ (layer.status = "ValueError") <=>
         (supplied.type = "NoneType" \/ supplied.type \notin QuantizerClasses)
    /\ supplied.type \in QuantizerClasses =>
         (layer.status = "ok" /\ layer.quantizer = supplied)

C1_Witness ==
  /\ layer.status = "ValueError"
  /\ supplied = StrObj

\* The mode a call asks for, when it is known while call runs
Definite(c) == c.training \in {"True", "False"} \/ c.phase \in {"0", "1"}
ModeOf(c) == IF c.training # "None" THEN c.training = "True" ELSE c.phase = "1"

\* C2: a call on a built layer with a definite training value invokes the
\* quantizer exactly once, with that training value and the given inputs, and
\* returns the quantizer's result unchanged; the other branch is not run.
C2_CallDelegatesOnce ==
  (lastCall.done /\ lastCall.built /\ Definite(lastCall)) =>
    /\ lastCall.raised = ""
    /\ Len(lastCall.invocations) = 1
    /\ lastCall.invocations[1].quantizer = layer.quantizer.id
    /\ lastCall.invocations[1].training = ModeOf(lastCall)
    /\ lastCall.invocations[1].inputs = lastCall.inputs
    /\ lastCall.result = <<lastCall.invocations[1].out>>

C2_Witness ==
  /\ lastCall.done /\ lastCall.built
  /\ lastCall.training = "True" /\ lastCall.phase = "0"
  /\ Len(lastCall.invocations) = 1
  /\ lastCall.invocations[1].training = TRUE

\* C3: with training=None the mode comes from the learning phase (a symbolic
\* phase keeps both branches, to be chosen by the phase when the graph runs);
\* an explicit training value decides the mode whatever the learning phase is.
C3_ModeSelection ==
  (lastCall.done /\ lastCall.built) =>
    /\ (lastCall.training = "None" /\ lastCall.phase \in {"0", "1"}) =>
         \A i \in DOMAIN lastCall.invocations :
           lastCall.invocations[i].training = (lastCall.phase = "1")
    /\ (lastCall.training = "None" /\ lastCall.phase = "tensor") =>
         {lastCall.invocations[i].training : i \in DOMAIN lastCall.invocations}
           = {TRUE, FALSE}
    /\ lastCall.training \in {"True", "False"} =>
         /\ lastCall.invocations # <<>>
         /\ \A i \in DOMAIN lastCall.invocations :
              lastCall.invocations[i].training = (lastCall.training = "True")

C3_Witness ==
  /\ lastCall.done /\ lastCall.built
  /\ lastCall.training = "False" /\ lastCall.phase = "1"
  /\ Len(lastCall.invocations) = 1
  /\ lastCall.invocations[1].training = FALSE

\* C4: after build the layer holds the quantizer, the min and max variables
\* quantizer.build returned (in that order) and one non-trainable int32
\* variable optimizer_step created with the value -1; quantizer.build was
\* invoked exactly once, with the input shape, the layer's name and the layer.
C4_BuildState ==
  /\ ~layer.built => (buildLog = <<>> /\ weights = <<>>)
  /\ layer.built =>
       /\ Len(buildLog) = 1
       /\ buildLog[1].args = [ input_shape |-> buildLog[1].given,
                               name |-> layer.base.name, layer |-> layer.id ]
       /\ layer.quantizer = supplied
       /\ layer.min_var = buildLog[1].ret[1]
       /\ layer.max_var = buildLog[1].ret[2]
       /\ buildLog[1].after[layer.min_var].name = "min"
       /\ buildLog[1].after[layer.max_var].name = "max"
       /\ Len(buildLog[1].after) = 3
       /\ buildLog[1].after[layer.optimizer_step] =
            [ name |-> "optimizer_step", dtype |-> "int32", trainable |-> FALSE,
              value |-> 0 - 1 ]

C4_Witness ==
  /\ layer.built
  /\ Len(buildLog) = 1
  /\ buildLog[1].given = 2
  /\ layer.base.name = "q1"

\* C5: the layer itself never writes optimizer_step, min_var or max_var: with
\* a quantizer that leaves them alone, after any calls optimizer_step is
\* still -1 and min_var and max_var hold the values they had after build.
C5_LayerNeverWrites ==
  (layer.built /\ layer.quantizer.type = "FixedRangeQuantizer") =>
    /\ weights[layer.optimizer_step].value = 0 - 1
    /\ weights[layer.min_var].value = buildLog[1].after[layer.min_var].value
    /\ weights[layer.max_var].value = buildLog[1].after[layer.max_var].value
    /\ weights = buildLog[1].after

C5_Witness ==
  /\ layer.built /\ layer.quantizer.type = "FixedRangeQuantizer"
  /\ lastCall.done /\ lastCall.built
  /\ lastCall.training = "True"
  /\ Len(lastCall.invocations) = 1
  /\ weights[layer.optimizer_step].value = 0 - 1

\* C6: in every call, in either mode, the quantizer receives the
\* optimizer_step variable build created and, under the keywords min_var and
\* max_var, the two variables quantizer.build returned, min under min_var and
\* max under max_var.
C6_SameVariablesPassed ==
  lastCall.done =>
    \A i \in DOMAIN lastCall.invocations :
      /\ Len(buildLog) = 1
      /\ lastCall.invocations[i].step = layer.optimizer_step
      /\ weights[lastCall.invocations[i].step].name = "optimizer_step"
      /\ DOMAIN lastCall.invocations[i].kwargs = {"min_var", "max_var"}
      /\ lastCall.invocations[i].kwargs["min_var"] = buildLog[1].ret[1]
      /\ lastCall.invocations[i].kwargs["max_var"] = buildLog[1].ret[2]

C6_Witness ==
  /\ lastCall.done
  /\ lastCall.training = "None" /\ lastCall.phase = "tensor"
  /\ Len(lastCall.invocations) = 2
  /\ lastCall.invocations[2].kwargs["max_var"] = buildLog[1].ret[2]

\* C7: call never invokes the quantizer before build has completed: a call
\* on a layer that has not been built raises (the variables do not exist)
\* without invoking the quantizer.
C7_NoCallBeforeBuild ==
  /\ (lastCall.done /\ ~lastCall.built) =>
       /\ lastCall.raised = "AttributeError"
       /\ lastCall.invocations = <<>>
       /\ lastCall.result = <<>>
  /\ lastCall.invocations # <<>> => (lastCall.built /\ layer.built /\ buildLog # <<>>)

C7_Witness ==
  /\ lastCall.done /\ ~lastCall.built
  /\ lastCall.raised = "AttributeError"
  /\ layer.built

\* C8 as stated: for every constructed layer L, from_config(L.get_config())
\* succeeds and yields a layer whose get_config() equals L.get_config().
C8_RoundTripAlways ==
  (restored.status # "absent" /\ configFrom = "get_config") =>
    /\ restored.status = "ok"
    /\ get_config(restored.layer) = get_config(layer)

\* C8, amended: from_config(L.get_config()) succeeds and yields a layer with
\* an equal get_config() when the quantizer's class is in the Keras
\* custom-object scope while from_config runs; when it is not, from_config
\* raises ValueError.
C8_RoundTripInScope ==
  (restored.status # "absent" /\ configFrom = "get_config") =>
    IF layer.quantizer.type \in restored.scopeAt
    THEN /\ restored.status = "ok"
         /\ restored.layer.id # layer.id
         /\ get_config(restored.layer) = get_config(layer)
         /\ serialize_keras_object(restored.layer.quantizer)
              = serialize_keras_object(layer.quantizer)
    ELSE restored.status = "ValueError"

C8_Witness ==
  /\ restored.status = "ok" /\ configFrom = "get_config"
  /\ layer.quantizer = LastValue4
  /\ layer.base.name = "q1" /\ ~layer.base.trainable
  /\ restored.layer.quantizer.id # layer.quantizer.id
  /\ get_config(restored.layer) = get_config(layer)

\* C9: get_config returns every entry of the base layer's configuration
\* unchanged plus exactly one more key, 'quantizer', holding the serialized
\* quantizer; no min_var, max_var or optimizer_step.
C9_GetConfigEntries ==
  configFrom = "get_config" =>
    /\ DOMAIN config = {"name", "trainable", "dtype", "quantizer"}
    /\ config["name"] = layer.base.name
    /\ config["trainable"] = layer.base.trainable
    /\ config["dtype"] = layer.base.dtype
    /\ config["quantizer"] =
         [class_name |-> layer.quantizer.type, config |-> layer.quantizer.config]
    /\ DOMAIN config \cap {"min_var", "max_var", "optimizer_step"} = {}

C9_Witness ==
  /\ configFrom = "get_config"
  /\ layer.built
  /\ config["name"] = "q1"
  /\ config["trainable"] = FALSE
  /\ config["quantizer"]["config"]["num_bits"] = 4

\* C10: from_config leaves the caller's mapping unchanged, whether it returns
\* or raises: the mapping still has its 'quantizer' entry and every other
\* entry with the same value.
C10_CallerConfigUnchanged ==
  restored.status # "absent" =>
    /\ "quantizer" \in DOMAIN config
    /\ config = restored.callerBefore

C10_Witness ==
  /\ restored.status = "ValueError"
  /\ configFrom = "edited"
  /\ "quantizer" \in DOMAIN config
  /\ config = restored.callerBefore
====
